---- MODULE Spec2Model ----
(***************************************************************************)
(* Model of search_and_download/CGLS_catalogue_and_download_demo.py.       *)
(*                                                                         *)
(* The program is a straight-line script over the terracatalogueclient     *)
(* library.  The model follows the script statement by statement: pc is    *)
(* the line of the statement about to run.  What the library and the       *)
(* remote service answer is not in the source, so every answer is drawn    *)
(* nondeterministically: a call may return or raise, a search may return   *)
(* any sequence of products.  get_products() returns a Python generator    *)
(* (lines 109-110), modelled with the language's generator semantics.      *)
(* What download_products() writes to disk is decided inside the library   *)
(* and is not modelled.                                                    *)
(***************************************************************************)
EXTENDS Naturals, Sequences, FiniteSets

VARIABLES pc, config, catalogue, collections, rows, df, products, listing,
          product_list, calls, raised, raisedAt

vars == <<pc, config, catalogue, collections, rows, df, products, listing,
          product_list, calls, raised, raisedAt>>

(* ---- bounds of the model ---- *)
NumCollections == 1
NumProducts == 2
MaxAssets == 1

(* ---- values ---- *)
CGLS == "CGLS"
MiB == 1024 * 1024

(* An asset of a product: product.data[k] with .href and .length. *)
Asset(i, k) == [href |-> <<i, k>>, length |-> k * MiB]

(* The products the service may answer with: an identifier and a list of   *)
(* data assets (the list may be empty as far as the source can tell).      *)
ProductUniverse ==
    { [id |-> i, data |-> [k \in 1..n |-> Asset(i, k)]] :
        i \in 1..NumProducts, n \in 0..MaxAssets }

(* The collections the service may answer with: c.id, c.properties. *)
CollectionUniverse ==
    { [id |-> i, properties |-> [title |-> <<"title", i>>]] : i \in 1..NumCollections }

(* Finite sequences over S of length at most n with pairwise distinct ids. *)
DistinctSeqs(S, n) ==
    { s \in UNION { [1..m -> S] : m \in 0..n } :
        \A a, b \in DOMAIN s : a # b => s[a].id # s[b].id }

ProductResults == DistinctSeqs(ProductUniverse, NumProducts)
CollectionResults == DistinctSeqs(CollectionUniverse, NumCollections)

(* ---- Python generator objects ---- *)
Unbound == [src |-> <<>>, pos |-> 0, state |-> "unbound"]

(* A call of a generator function: nothing has been yielded yet. *)
NewGen(s) == [src |-> s, pos |-> 0, state |-> "suspended"]

(* next(g) has an element to yield. *)
GenHasNext(g) == g.state = "suspended" /\ g.pos < Len(g.src)

(* The element next(g) yields, and the generator after yielding it. *)
GenItem(g) == g.src[g.pos + 1]
GenYield(g) == [g EXCEPT !.pos = @ + 1]

(* A list-like result that starts over once it has been walked through. *)
GenStopRestartable(g) == [g EXCEPT !.pos = 0]

(* next(g) raises StopIteration (or the generator body raises): the        *)
(* generator is finished for good.                                        *)
GenStop(g) == [g EXCEPT !.state = "finished"]

(* list(g): what iterating g from now on yields. *)
GenList(g) ==
    IF g.state = "suspended" THEN SubSeq(g.src, g.pos + 1, Len(g.src)) ELSE <<>>

(* ---- the script ---- *)
Lines == <<"L66", "L68", "L69", "L72", "L88", "L89", "L94", "L97",
           "L116", "L116list", "L130", "L130run", "L141", "done">>

LineNo(l) == CHOOSE i \in DOMAIN Lines : Lines[i] = l

(* The script with the download cell placed before the cell that builds    *)
(* product_list.                                                          *)
AfterDownloadFirst(l) ==
    CASE l = "L97" -> "L130"
      [] l = "L130run" -> "L116"
      [] l = "L116list" -> "L141"
      [] OTHER -> Lines[LineNo(l) + 1]

(* The statement that runs after statement l returns. *)
After(l) == Lines[LineNo(l) + 1]

(* An exception handler that swallows the exception and goes on. *)
RaiseSwallowed(op) ==
    /\ pc' = After(pc)
    /\ raised' = op
    /\ raisedAt' = Len(calls')

(* An exception leaves the statement at pc: nothing in the script catches  *)
(* it, so the script ends there.                                          *)
Raise(op) ==
    /\ pc' = "aborted"
    /\ raised' = op
    /\ raisedAt' = Len(calls')

Init ==
    /\ pc = "L66"
    /\ config = CGLS
    /\ catalogue = [config |-> CGLS]
    /\ collections = Unbound
    /\ rows = <<>>
    /\ df = <<>>
    /\ products = Unbound
    /\ listing = Unbound
    /\ product_list = <<>>
    /\ calls = <<>>
    /\ raised = "none"
    /\ raisedAt = 0

(* line 66: collections = catalogue.get_collections() *)
GetCollections ==
    /\ pc = "L66"
    /\ calls' = Append(calls, "get_collections")
    /\ \E s \in CollectionResults : collections' = NewGen(s)
    /\ pc' = After(pc)
    /\ UNCHANGED <<config, catalogue, rows, df, products, listing, product_list,
                   raised, raisedAt>>

(* line 66, the call raises *)
GetCollectionsRaise ==
    /\ pc = "L66"
    /\ calls' = Append(calls, "get_collections")
    /\ UNCHANGED <<config, catalogue, collections, rows, df, products, listing,
                   product_list>>
    /\ Raise("get_collections")

(* lines 68 and 88: rows = [] *)
ResetRows ==
    /\ pc \in {"L68", "L88"}
    /\ rows' = <<>>
    /\ pc' = After(pc)
    /\ UNCHANGED <<config, catalogue, collections, df, products, listing,
                   product_list, calls, raised, raisedAt>>

(* lines 69-70: one turn of  for c in collections: rows.append([...]) *)
ForCollection ==
    /\ pc = "L69"
    /\ GenHasNext(collections)
    /\ LET c == GenItem(collections)
       IN rows' = Append(rows, <<c.id, c.properties.title>>)
    /\ collections' = GenYield(collections)
    /\ UNCHANGED <<pc, config, catalogue, df, products, listing, product_list,
                   calls, raised, raisedAt>>

(* line 69: the iteration ends *)
ForCollectionEnd ==
    /\ pc = "L69"
    /\ ~GenHasNext(collections)
    /\ collections' = GenStop(collections)
    /\ pc' = After(pc)
    /\ UNCHANGED <<config, catalogue, rows, df, products, listing, product_list,
                   calls, raised, raisedAt>>

(* line 69: fetching the next collection raises *)
ForCollectionRaise ==
    /\ pc = "L69"
    /\ collections.state = "suspended"
    /\ collections' = GenStop(collections)
    /\ UNCHANGED <<config, catalogue, rows, df, products, listing, product_list,
                   calls>>
    /\ Raise("get_collections")

(* lines 72 and 97: df = pd.DataFrame(data = rows, ...) *)
MakeFrame ==
    /\ pc \in {"L72", "L97"}
    /\ df' = rows
    /\ pc' = After(pc)
    /\ UNCHANGED <<config, catalogue, collections, rows, products, listing,
                   product_list, calls, raised, raisedAt>>

(* lines 89-93: products = catalogue.get_products(...); a generator, so    *)
(* the call itself does nothing but create it                             *)
GetProducts ==
    /\ pc = "L89"
    /\ calls' = Append(calls, "get_products")
    /\ \E s \in ProductResults : products' = NewGen(s)
    /\ pc' = After(pc)
    /\ UNCHANGED <<config, catalogue, collections, rows, df, listing,
                   product_list, raised, raisedAt>>

(* line 95: [product.id, product.data[0].href, product.data[0].length/MiB] *)
Row(p) == <<p.id, p.data[1].href, p.data[1].length \div MiB>>

(* lines 94-95: one turn of  for product in products: rows.append([...]) *)
ForProduct ==
    /\ pc = "L94"
    /\ GenHasNext(products)
    /\ Len(GenItem(products).data) > 0
    /\ rows' = Append(rows, Row(GenItem(products)))
    /\ products' = GenYield(products)
    /\ UNCHANGED <<pc, config, catalogue, collections, df, listing, product_list,
                   calls, raised, raisedAt>>

(* line 95: product.data[0] on an empty list raises IndexError *)
ForProductIndexError ==
    /\ pc = "L94"
    /\ GenHasNext(products)
    /\ Len(GenItem(products).data) = 0
    /\ products' = GenYield(products)
    /\ UNCHANGED <<config, catalogue, collections, rows, df, listing,
                   product_list, calls>>
    /\ Raise("data[0]")

(* line 94: the iteration ends *)
ForProductEnd ==
    /\ pc = "L94"
    /\ ~GenHasNext(products)
    /\ products' = GenStop(products)
    /\ pc' = After(pc)
    /\ UNCHANGED <<config, catalogue, collections, rows, df, listing,
                   product_list, calls, raised, raisedAt>>

(* line 94: fetching the next product raises inside the generator *)
ForProductRaise ==
    /\ pc = "L94"
    /\ products.state = "suspended"
    /\ products' = GenStop(products)
    /\ UNCHANGED <<config, catalogue, collections, rows, df, listing,
                   product_list, calls>>
    /\ Raise("get_products")

(* lines 116-120: the argument of list(): catalogue.get_products(...) *)
GetProductsAgain ==
    /\ pc = "L116"
    /\ calls' = Append(calls, "get_products")
    /\ \E s \in ProductResults : listing' = NewGen(s)
    /\ pc' = After(pc)
    /\ UNCHANGED <<config, catalogue, collections, rows, df, products,
                   product_list, raised, raisedAt>>

(* line 116: list() takes the next product from the generator *)
ListTake ==
    /\ pc = "L116list"
    /\ GenHasNext(listing)
    /\ listing' = GenYield(listing)
    /\ UNCHANGED <<pc, config, catalogue, collections, rows, df, products,
                   product_list, calls, raised, raisedAt>>

(* line 116: the generator is exhausted; product_list = what it yielded *)
ListEnd ==
    /\ pc = "L116list"
    /\ ~GenHasNext(listing)
    /\ product_list' = SubSeq(listing.src, 1, listing.pos)
    /\ listing' = GenStop(listing)
    /\ pc' = After(pc)
    /\ UNCHANGED <<config, catalogue, collections, rows, df, products, calls,
                   raised, raisedAt>>

(* line 116: fetching the next product raises inside the generator *)
ListRaise ==
    /\ pc = "L116list"
    /\ listing.state = "suspended"
    /\ listing' = GenStop(listing)
    /\ UNCHANGED <<config, catalogue, collections, rows, df, products,
                   product_list, calls>>
    /\ Raise("get_products")

(* line 130: catalogue.download_products(product_list, './') is entered *)
DownloadProducts ==
    /\ pc = "L130"
    /\ calls' = Append(calls, "download_products")
    /\ pc' = After(pc)
    /\ UNCHANGED <<config, catalogue, collections, rows, df, products, listing,
                   product_list, raised, raisedAt>>

(* line 130: the call returns *)
DownloadReturn ==
    /\ pc = "L130run"
    /\ pc' = After(pc)
    /\ UNCHANGED <<config, catalogue, collections, rows, df, products, listing,
                   product_list, calls, raised, raisedAt>>

(* line 130: the call raises *)
DownloadRaise ==
    /\ pc = "L130run"
    /\ UNCHANGED <<config, catalogue, collections, rows, df, products, listing,
                   product_list, calls>>
    /\ Raise("download_products")

(* line 141: os.listdir('./c_gls_BA300-NRT_.../') returns *)
ListDir ==
    /\ pc = "L141"
    /\ pc' = After(pc)
    /\ UNCHANGED <<config, catalogue, collections, rows, df, products, listing,
                   product_list, calls, raised, raisedAt>>

(* line 141: the directory is not there *)
ListDirRaise ==
    /\ pc = "L141"
    /\ UNCHANGED <<config, catalogue, collections, rows, df, products, listing,
                   product_list, calls>>
    /\ Raise("listdir")

Next ==
    \/ GetCollections
    \/ GetCollectionsRaise
    \/ ResetRows
    \/ ForCollection
    \/ ForCollectionEnd
    \/ ForCollectionRaise
    \/ MakeFrame
    \/ GetProducts
    \/ ForProduct
    \/ ForProductIndexError
    \/ ForProductEnd
    \/ ForProductRaise
    \/ GetProductsAgain
    \/ ListTake
    \/ ListEnd
    \/ ListRaise
    \/ DownloadProducts
    \/ DownloadReturn
    \/ DownloadRaise
    \/ ListDir
    \/ ListDirRaise

Spec == Init /\ [][Next]_vars

(* ---- properties ---- *)
Range(s) == { s[i] : i \in DOMAIN s }

IsPrefix(s, t) == Len(s) <= Len(t) /\ SubSeq(t, 1, Len(s)) = s

(* Statements after the loop of lines 94-95 has ended normally. *)
AfterFirstLoop == {"L97", "L116", "L116list", "L130", "L130run", "L141", "done"}

(* Statements after list(...) of line 116 has returned. *)
AfterListing == {"L130", "L130run", "L141", "done"}

(* The library operations in the order the script invokes them. *)
Order == <<"get_collections", "get_products", "get_products", "download_products">>

(* The library operations that have started and not yet finished. *)
InProgress ==
    {g \in {"collections", "products", "listing"} :
        (CASE g = "collections" -> collections
           [] g = "products" -> products
           [] OTHER -> listing).state = "suspended" /\ raised = "none"}
    \cup (IF pc = "L130run" THEN {"download"} ELSE {})

FullyConsumed(g) == g.state = "finished" /\ g.pos = Len(g.src)

C7_FixedOrder ==
    /\ IsPrefix(calls, Order)
    /\ Cardinality(InProgress) <= 1
    /\ Len(calls) >= 2 => FullyConsumed(collections)
    /\ Len(calls) >= 3 => FullyConsumed(products)
    /\ Len(calls) >= 4 => FullyConsumed(listing) /\ product_list = listing.src

C7_Witness ==
    /\ pc = "done"
    /\ calls = Order
    /\ Len(product_list) >= 1

(* C8: an error of any operation ends the script where it is raised: the   *)
(* failed operation is not invoked again, no later operation is invoked,   *)
(* and download_products is never invoked after the collection listing or  *)
(* a search has failed.                                                    *)
C8_ErrorsAbort ==
    raised # "none" =>
        /\ pc = "aborted"
        /\ Len(calls) = raisedAt
        /\ raised \in {"get_collections", "get_products"} =>
              "download_products" \notin Range(calls)

C8_Witness ==
    /\ raised = "get_products"
    /\ pc = "aborted"
    /\ Len(calls) = 3
    /\ Len(rows) >= 1

====
